---- MODULE Spec2Model ----
(***************************************************************************)
(* A model of nvtrust-rs (src/src/dev.rs): the PCI device handle           *)
(* (PciDevice::new, init_caps, init_bars) and the GPU register object      *)
(* (GpuObject::new, sanity_check, clone, drop, the reads and writes).      *)
(*                                                                         *)
(* Text is modelled as TLA+ strings, handled character by character.       *)
(* A u64 is a sequence of 16 hexadecimal digits (0..15), most significant  *)
(* first, a u32 a sequence of 8: the arithmetic below keeps the width.     *)
(***************************************************************************)
EXTENDS Integers, Sequences, FiniteSets, TLC

VARIABLES
    config_file,      \* the bytes of <path>/config
    dev,              \* the PciDevice handle, or NoDevice
    new_result,       \* what PciDevice::new returned
    caps_pc,          \* init_caps: "idle", "loop", "done"
    ptr,              \* init_caps: the local ptr
    caps_result,      \* what init_caps returned
    resource,         \* the lines of <path>/resource (split at "\n")
    overflow_checks,  \* the build: TRUE panics on integer overflow, FALSE wraps
    bars_result,      \* what init_bars returned
    phys_boot,        \* physical memory: region start -> the u32 at its offset 0
    iomem,            \* the lines of /proc/iomem (split at "\n")
    objects,          \* the live GpuObject values, by object id
    mappings,         \* the live memory mappings of the process
    n_new,            \* how many times GpuObject::new ran
    n_obj,            \* how many GpuObject values were ever made
    last_new,         \* the last GpuObject::new call: its inputs and result
    last_access,      \* the last read/write call: its inputs and result
    cc_reg,           \* the device's byte at offset NV_CC_MODE of BAR0
    last_query        \* the last query_cc_mode call: its inputs and result

vars == <<config_file, dev, new_result, caps_pc, ptr, caps_result, resource,
          overflow_checks, bars_result, phys_boot, iomem, objects, mappings,
          n_new, n_obj, last_new, last_access, cc_reg, last_query>>

pciVars == <<config_file, dev, new_result, caps_pc, ptr, caps_result, resource,
             overflow_checks, bars_result>>
gpuVars == <<phys_boot, iomem, objects, mappings, n_new, n_obj,
             last_new, last_access, cc_reg, last_query>>

-----------------------------------------------------------------------------
(* Program constants. *)

NVIDIA_VENDOR_ID == 4318        \* 0x10de
NVIDIA_HOPPER_H100 == 9009      \* 0x2331
NV_PMC_BOOT_0 == 0
RawConfigSize == 64             \* std::mem::size_of::<RawConfig>()
CapPtrOffset == 52              \* offset of RawConfig.capabilities_pointer
NoCapsPtr == 255                \* 0xff
NumBars == 6
CapDataLen == 4
PCI_CAP_ID_PM == 1
PCI_CAP_ID_EXP == 16
Radix == 16
NV_CC_MODE == 1147596           \* 0x1182cc
CC_MODE_OFF == 0
CC_MODE_ON == 1
CC_MODE_DEV_TOOLS == 3
U8Bits == 8                     \* CcMode : u8

-----------------------------------------------------------------------------
(* Fixed-width unsigned integers as digit sequences. *)

U64Digits == 16
U32Digits == 8

Zero(n) == [i \in 1..n |-> 0]
IsZero(u) == \A i \in 1..Len(u) : u[i] = 0
AllOnes(n) == [i \in 1..n |-> Radix - 1]

RECURSIVE SubFrom(_, _, _)
\* Digits i..Len(a) of a - b, and the borrow out of digit i.
SubFrom(a, b, i) ==
    IF i > Len(a) THEN [d |-> <<>>, borrow |-> 0]
    ELSE LET r == SubFrom(a, b, i + 1)
             t == a[i] - b[i] - r.borrow
         IN  [d |-> <<(t + Radix) % Radix>> \o r.d,
              borrow |-> IF t < 0 THEN 1 ELSE 0]

\* a.wrapping_sub(b)
WrappingSub(a, b) == SubFrom(a, b, 1).d

\* a < b: a - b overflows
SubOverflows(a, b) == SubFrom(a, b, 1).borrow = 1

RECURSIVE IncFrom(_, _)
\* Digits i..Len(a) of a + 1, and the carry out of digit i.
IncFrom(a, i) ==
    IF i > Len(a) THEN [d |-> <<>>, carry |-> 1]
    ELSE LET r == IncFrom(a, i + 1)
             t == a[i] + r.carry
         IN  [d |-> <<t % Radix>> \o r.d,
              carry |-> IF t >= Radix THEN 1 ELSE 0]

\* a.wrapping_add(1)
WrappingInc(a) == IncFrom(a, 1).d

\* a + 1 overflows
IncOverflows(a) == IncFrom(a, 1).carry = 1

\* flags & 0x1
Bit0(u) == u[Len(u)] % 2

\* (flags >> 1) & 0x3
Bits21(u) == (u[Len(u)] \div 2) % 4

RECURSIVE ToNat(_)
\* The value of a digit sequence (for values below 2^31).
ToNat(u) == IF u = <<>> THEN 0 ELSE ToNat(SubSeq(u, 1, Len(u) - 1)) * Radix + u[Len(u)]

-----------------------------------------------------------------------------
(* Text: str::split, str::replace, str::trim, str::contains,               *)
(* u64::from_str_radix(_, 16).                                             *)

Rest(s) == SubSeq(s, 2, Len(s))

RECURSIVE SplitAcc(_, _, _)
SplitAcc(s, sep, cur) ==
    IF s = "" THEN <<cur>>
    ELSE IF Head(s) = sep THEN <<cur>> \o SplitAcc(Rest(s), sep, "")
    ELSE SplitAcc(Rest(s), sep, cur \o Head(s))

\* s.split(sep).collect::<Vec<_>>(), sep one character: never empty
Split(s, sep) == SplitAcc(s, sep, "")

RECURSIVE Replace0x(_)
\* s.replace("0x", "")
Replace0x(s) ==
    IF Len(s) < 2 THEN s
    ELSE IF SubSeq(s, 1, 2) = "0x" THEN Replace0x(SubSeq(s, 3, Len(s)))
    ELSE Head(s) \o Replace0x(Rest(s))

RECURSIVE TrimStart(_)
TrimStart(s) == IF s # "" /\ Head(s) = " " THEN TrimStart(Rest(s)) ELSE s

RECURSIVE TrimEnd(_)
TrimEnd(s) ==
    IF s # "" /\ SubSeq(s, Len(s), Len(s)) = " "
    THEN TrimEnd(SubSeq(s, 1, Len(s) - 1)) ELSE s

\* s.trim()
Trim(s) == TrimEnd(TrimStart(s))

\* s.contains(t)
Contains(s, t) == \E i \in 1..(Len(s) - Len(t) + 1) : SubSeq(s, i, i + Len(t) - 1) = t

\* char::to_digit(16), -1 for None
HexDigit(c) ==
    CASE c = "0" -> 0 [] c = "1" -> 1 [] c = "2" -> 2 [] c = "3" -> 3
      [] c = "4" -> 4 [] c = "5" -> 5 [] c = "6" -> 6 [] c = "7" -> 7
      [] c = "8" -> 8 [] c = "9" -> 9
      [] c \in {"a", "A"} -> 10 [] c \in {"b", "B"} -> 11
      [] c \in {"c", "C"} -> 12 [] c \in {"d", "D"} -> 13
      [] c \in {"e", "E"} -> 14 [] c \in {"f", "F"} -> 15
      [] OTHER -> -1

RECURSIVE HexDigits(_)
HexDigits(s) == IF s = "" THEN <<>> ELSE <<HexDigit(Head(s))>> \o HexDigits(Rest(s))

RECURSIVE StripZeros(_)
StripZeros(d) == IF d # <<>> /\ Head(d) = 0 THEN StripZeros(Tail(d)) ELSE d

ParseErr == [ok |-> FALSE, val |-> Zero(U64Digits)]

\* u64::from_str_radix(s, 16): an empty string, a lone sign, a character that
\* is no hexadecimal digit, or a value of more than 64 bits is an Err; one
\* leading "+" is accepted.
from_str_radix(s) ==
    LET body == IF s # "" /\ Head(s) = "+" THEN Rest(s) ELSE s
        d == HexDigits(body)
        sig == StripZeros(d)
    IN  IF body = "" THEN ParseErr
        ELSE IF \E i \in 1..Len(d) : d[i] < 0 THEN ParseErr
        ELSE IF Len(sig) > U64Digits THEN ParseErr
        ELSE [ok |-> TRUE, val |-> Zero(U64Digits - Len(sig)) \o sig]

\* A u64 written as hexadecimal digits.
Hex(s) == from_str_radix(s).val

-----------------------------------------------------------------------------
(* PciDevice::new *)

NoDevice == [none |-> TRUE]

DefaultBar == [addr |-> Zero(U64Digits), size |-> Zero(U64Digits), is_64 |-> FALSE]

EmptyCaps == [id \in {} |-> 0]

\* The byte at 0-based offset off of a file, -1 past its end.
ByteAt(file, off) == IF off < Len(file) THEN file[off + 1] ELSE -1

\* io::read(&fd, &mut buf) at file position pos: the bytes the file has are
\* copied, the rest of buf keeps what it held. (The count read is the
\* call's result, which both callers drop.)
io_read(file, pos, buf) ==
    [i \in 1..Len(buf) |->
        IF ByteAt(file, pos + i - 1) >= 0 THEN ByteAt(file, pos + i - 1) ELSE buf[i]]

\* RawConfig::from_bytes: the fields the program reads, little-endian.
RawConfig_from_bytes(bytes) ==
    IF Len(bytes) < RawConfigSize
    THEN [ok |-> FALSE]
    ELSE [ok |-> TRUE,
          config |-> [vendor |-> bytes[1] + 256 * bytes[2],
                      device |-> bytes[3] + 256 * bytes[4],
                      capabilities_pointer |-> bytes[CapPtrOffset + 1]]]

\* PciDevice::new on a config file that opens: the result and the handle.
PciDevice_new(file) ==
    LET buf == io_read(file, 0, [i \in 1..RawConfigSize |-> 0])
        raw == RawConfig_from_bytes(buf)
    IN  IF ~raw.ok
        THEN [result |-> "InvalidLength", dev |-> NoDevice]
        ELSE IF raw.config.device # NVIDIA_HOPPER_H100
                \/ raw.config.vendor # NVIDIA_VENDOR_ID
        THEN [result |-> "InvalidDevice", dev |-> NoDevice]
        ELSE [result |-> "Ok",
              dev |-> [config |-> raw.config,
                       caps |-> EmptyCaps,
                       bars |-> [i \in 1..NumBars |-> DefaultBar]]]

\* fs::open or io::read may fail: the `?` returns the error.
PciDeviceNew ==
    /\ new_result = "none"
    /\ LET r == PciDevice_new(config_file)
       IN  \E io_ok \in BOOLEAN :
              /\ new_result' = IF io_ok THEN r.result ELSE "IoError"
              /\ dev' = IF io_ok THEN r.dev ELSE NoDevice
    /\ UNCHANGED <<config_file, caps_pc, ptr, caps_result, resource,
                   overflow_checks, bars_result>>
    /\ UNCHANGED gpuVars

-----------------------------------------------------------------------------
(* PciDevice::init_caps, one loop iteration per step *)

\* As CapsInsert, but a present key keeps its value (entry().or_insert()).
CapsInsertKeepFirst(caps, id, off) ==
    [k \in DOMAIN caps \cup {id} |-> IF k \in DOMAIN caps THEN caps[k] ELSE off]

\* HashMap::insert: a present key's value is replaced.
CapsInsert(caps, id, off) ==
    [k \in DOMAIN caps \cup {id} |-> IF k = id THEN off ELSE caps[k]]

\* As WalkContinues, with the test against 0xff made in the loop too.
WalkContinuesBelowFF(p) == p # 0 /\ p # NoCapsPtr

\* while ptr != 0
WalkContinues(p) == p # 0

InitCapsBegin ==
    /\ dev # NoDevice
    /\ caps_pc = "idle"
    /\ IF dev.config.capabilities_pointer = NoCapsPtr
       THEN /\ caps_pc' = "done"
            /\ caps_result' = "NoCapabilities"
            /\ ptr' = ptr
       ELSE /\ caps_pc' = "loop"
            /\ ptr' = dev.config.capabilities_pointer
            /\ caps_result' = caps_result
    /\ UNCHANGED <<config_file, dev, new_result, resource, overflow_checks,
                   bars_result>>
    /\ UNCHANGED gpuVars

\* while ptr != 0 { seek; read 4 bytes; insert; ptr = cap_next }
InitCapsStep ==
    /\ caps_pc = "loop"
    /\ WalkContinues(ptr)
    /\ LET data == io_read(config_file, ptr, [i \in 1..CapDataLen |-> 0])
           cap_id == data[1]
           cap_next == data[2]
       IN  /\ dev' = [dev EXCEPT !.caps = CapsInsert(dev.caps, cap_id, ptr)]
           /\ ptr' = cap_next
    /\ UNCHANGED <<config_file, new_result, caps_pc, caps_result, resource,
                   overflow_checks, bars_result>>
    /\ UNCHANGED gpuVars

\* fs::seek or io::read fails: the `?` returns the error.
InitCapsIoError ==
    /\ caps_pc = "loop"
    /\ WalkContinues(ptr)
    /\ caps_pc' = "done"
    /\ caps_result' = "IoError"
    /\ UNCHANGED <<config_file, dev, new_result, ptr, resource,
                   overflow_checks, bars_result>>
    /\ UNCHANGED gpuVars

InitCapsReturn ==
    /\ caps_pc = "loop"
    /\ ~WalkContinues(ptr)
    /\ caps_pc' = "done"
    /\ caps_result' = "Ok"
    /\ UNCHANGED <<config_file, dev, new_result, ptr, resource,
                   overflow_checks, bars_result>>
    /\ UNCHANGED gpuVars

-----------------------------------------------------------------------------
(* PciDevice::init_bars *)

\* As StoresBar, without the test of addr.
StoresBarAnyAddr(addr, flags) == Bit0(flags) = 0

\* As BarSize, without the + 1.
BarSizeNoInc(addr, end) == WrappingSub(end, addr)

\* flags & 0x1 == 0 and addr != 0: the line is stored.
StoresBar(addr, flags) == Bit0(flags) = 0 /\ ~IsZero(addr)

\* end - addr + 1 panics when the build checks overflow
SizeOverflows(addr, end) ==
    SubOverflows(end, addr) \/ IncOverflows(WrappingSub(end, addr))

\* end - addr + 1 (wrapping)
BarSize(addr, end) == WrappingInc(WrappingSub(end, addr))

\* (flags >> 1) & 0x3 == 0x2
Is64(flags) == Bits21(flags) = 2

\* line.split(" ").map(|s| s.replace("0x", ""))
BarFields(line) ==
    LET f == Split(line, " ") IN [j \in 1..Len(f) |-> Replace0x(f[j])]

\* The slot index after line k was handled.
NextSlot(i, stored) == IF stored THEN i + 1 ELSE i

RECURSIVE InitBarsFrom(_, _, _, _, _)
\* The loop of init_bars from line k (1-based) on, with i slots stored: the
\* result and the BAR table it leaves. bar[1] and bar[2] index a Vec and
\* panic past its end; a field that does not parse returns through `?`.
InitBarsFrom(lines, k, bars, i, oc) ==
    IF k > Len(lines) \/ k > NumBars
    THEN [result |-> "Ok", bars |-> bars]
    ELSE
      LET bar == BarFields(lines[k])
          addr == from_str_radix(bar[1])
          end == from_str_radix(bar[2])
          flags == from_str_radix(bar[3])
      IN  IF ~addr.ok THEN [result |-> "ParseError", bars |-> bars]
          ELSE IF Len(bar) < 2 THEN [result |-> "Panic", bars |-> bars]
          ELSE IF ~end.ok THEN [result |-> "ParseError", bars |-> bars]
          ELSE IF Len(bar) < 3 THEN [result |-> "Panic", bars |-> bars]
          ELSE IF ~flags.ok THEN [result |-> "ParseError", bars |-> bars]
          ELSE IF ~StoresBar(addr.val, flags.val)
          THEN InitBarsFrom(lines, k + 1, bars, NextSlot(i, FALSE), oc)
          ELSE IF oc /\ SizeOverflows(addr.val, end.val)
          THEN [result |-> "Panic", bars |-> bars]
          ELSE InitBarsFrom(lines, k + 1,
                            [bars EXCEPT ![i + 1] =
                                [addr |-> addr.val,
                                 size |-> BarSize(addr.val, end.val),
                                 is_64 |-> Is64(flags.val)]],
                            NextSlot(i, TRUE), oc)

\* init_bars on a resource file that reads.
init_bars(lines, bars, oc) == InitBarsFrom(lines, 1, bars, 0, oc)

\* std::fs::read_to_string may fail: the `?` returns the error.
InitBars ==
    /\ dev # NoDevice
    /\ bars_result = "none"
    /\ LET r == init_bars(resource, dev.bars, overflow_checks)
       IN  \E io_ok \in BOOLEAN :
              /\ bars_result' = IF io_ok THEN r.result ELSE "IoError"
              /\ dev' = IF io_ok THEN [dev EXCEPT !.bars = r.bars] ELSE dev
    /\ UNCHANGED <<config_file, new_result, caps_pc, ptr, caps_result, resource,
                   overflow_checks>>
    /\ UNCHANGED gpuVars

-----------------------------------------------------------------------------
(* GpuObject::new and GpuObject::sanity_check *)

MaxNew == 2          \* calls of GpuObject::new in one run
MaxObjects == 3      \* GpuObject values made in one run, clones included

VendorMarker == "nvidia"

\* read_volatile of the u32 at offset NV_PMC_BOOT_0 of a mapping of physical
\* address pa; an address no device answers reads as all ones.
ReadBoot(pa) ==
    IF pa \in DOMAIN phys_boot THEN phys_boot[pa] ELSE AllOnes(U32Digits)

\* As BootDead, with the test left out.
BootDeadNever(boot) == FALSE

\* boot == 0xffffffff
BootDead(boot) == boot = AllOnes(U32Digits)

\* boot_val != boot
BootMismatch(boot_val, boot) == boot_val # boot

\* mm::mmap(null, len, .., fd, pa) returns an address no live mapping has.
FreeBase(maps) == CHOOSE b \in 1..(Cardinality(maps) + 1) :
                      /\ \A m \in maps : m.base # b
                      /\ \A c \in 1..(b - 1) : \E m \in maps : m.base = c

Mapping(maps, pa, len) == [base |-> FreeBase(maps), phys |-> pa, len |-> len]

\* iomem.iter().find(|line| line.contains(target)): the index of the first
\* such line, 0 for None.
FindLine(lines, target) ==
    IF \E k \in 1..Len(lines) : Contains(lines[k], target)
    THEN CHOOSE k \in 1..Len(lines) :
            /\ Contains(lines[k], target)
            /\ \A j \in 1..(k - 1) : ~Contains(lines[j], target)
    ELSE 0

\* line.trim().split(" ").first().split("-").map(from_str_radix): the parsed
\* bounds, in order.
RangeFields(line) ==
    LET f == Split(Split(Trim(line), " ")[1], "-")
    IN  [j \in 1..Len(f) |-> from_str_radix(f[j])]

\* GpuObject::sanity_check(fd, addr, target), addr a mapping of physical
\* address pa, with the mappings maps live: the result and the mappings
\* live when it returns. The fd is closed on every path (it is dropped, or
\* moved into mmap); no path unmaps.
sanity_check(pa, lines, maps, oc, fail) ==
    LET boot == ReadBoot(pa)
        k == FindLine(lines, VendorMarker)
        res == RangeFields(lines[k])
        start == res[1].val
        end == res[2].val
        size == BarSize(start, end)
        m2 == Mapping(maps, start, size)
    IN  IF BootDead(boot) THEN [result |-> "SanityCheckFailed", maps |-> maps]
        ELSE IF fail = "read_iomem" THEN [result |-> "IoError", maps |-> maps]
        ELSE IF k = 0 THEN [result |-> "Ok", maps |-> maps]
        ELSE IF \E j \in 1..Len(res) : ~res[j].ok
        THEN [result |-> "Panic", maps |-> maps]
        ELSE IF Len(res) < 2 THEN [result |-> "Panic", maps |-> maps]
        ELSE IF oc /\ SizeOverflows(start, end)
        THEN [result |-> "Panic", maps |-> maps]
        ELSE IF IsZero(size) \/ fail = "mmap2"
        THEN [result |-> "IoError", maps |-> maps]
        ELSE IF BootMismatch(ReadBoot(start), boot)
        THEN [result |-> "SanityCheckFailed", maps |-> maps \cup {m2}]
        ELSE [result |-> "Ok", maps |-> maps \cup {m2}]

NoObject == [none |-> TRUE]

\* GpuObject::new(device): the result, the object and the mappings live when
\* it returns. Both descriptors of /dev/mem are closed on every path.
GpuObject_new(device, lines, maps, oc, fail) ==
    LET bar0 == device.bars[1]
        m1 == Mapping(maps, bar0.addr, bar0.size)
        boot == ReadBoot(bar0.addr)
        res == [bar0 |-> bar0, bar0_mapped |-> m1.base]
        chk == sanity_check(bar0.addr, lines, maps \cup {m1}, oc, fail)
    IN  IF fail \in {"open", "try_clone"}
        THEN [result |-> "IoError", obj |-> NoObject, maps |-> maps]
        ELSE IF IsZero(bar0.size) \/ fail = "mmap"
        THEN [result |-> "IoError", obj |-> NoObject, maps |-> maps]
        ELSE IF BootDead(boot)
        THEN [result |-> "SanityCheckFailed", obj |-> NoObject,
              maps |-> maps \cup {m1}]
        ELSE IF chk.result # "Ok"
        THEN [result |-> chk.result, obj |-> NoObject, maps |-> chk.maps]
        ELSE [result |-> "Ok", obj |-> res, maps |-> chk.maps]

FailPoints == {"none", "open", "try_clone", "mmap", "read_iomem", "mmap2"}

GpuObjectNew ==
    /\ dev # NoDevice
    /\ n_new < MaxNew
    /\ n_obj < MaxObjects
    /\ \E fail \in FailPoints :
          LET r == GpuObject_new(dev, iomem, mappings, overflow_checks, fail)
          IN  /\ mappings' = r.maps
              /\ objects' = IF r.result = "Ok"
                            THEN [o \in DOMAIN objects \cup {n_obj + 1} |->
                                    IF o = n_obj + 1 THEN r.obj ELSE objects[o]]
                            ELSE objects
              /\ n_obj' = IF r.result = "Ok" THEN n_obj + 1 ELSE n_obj
              /\ last_new' = [called |-> TRUE, fail |-> fail,
                              result |-> r.result,
                              before |-> mappings, obj |-> r.obj]
    /\ n_new' = n_new + 1
    /\ UNCHANGED <<phys_boot, iomem, last_access, cc_reg, last_query>>
    /\ UNCHANGED pciVars

\* #[derive(Clone)]: the fields are copied, the raw pointer included.
GpuObject_clone(obj) == [bar0 |-> obj.bar0, bar0_mapped |-> obj.bar0_mapped]

GpuObjectClone ==
    /\ n_obj < MaxObjects
    /\ \E o \in DOMAIN objects :
          objects' = [p \in DOMAIN objects \cup {n_obj + 1} |->
                        IF p = n_obj + 1 THEN GpuObject_clone(objects[o])
                        ELSE objects[p]]
    /\ n_obj' = n_obj + 1
    /\ UNCHANGED <<phys_boot, iomem, mappings, n_new, last_new, last_access,
                   cc_reg, last_query>>
    /\ UNCHANGED pciVars

\* GpuObject has no Drop: dropping it drops its fields (an Arc, a Bar, a raw
\* pointer) and unmaps nothing.
GpuObjectDrop ==
    /\ \E o \in DOMAIN objects :
          objects' = [p \in DOMAIN objects \ {o} |-> objects[p]]
    /\ UNCHANGED <<phys_boot, iomem, mappings, n_new, n_obj, last_new,
                   last_access, cc_reg, last_query>>
    /\ UNCHANGED pciVars

-----------------------------------------------------------------------------
(* GpuObject::read, write and the width-typed accessors *)

MaxOffset == 9       \* the offsets tried are 0..MaxOffset
MaxCopyLen == 5      \* read(offset, size), write(offset, data): up to this long

\* std::ptr::copy_nonoverlapping between bar0_mapped + offset and a buffer of
\* count bytes, on a mapping of len bytes: no check precedes it. A copy that
\* stays inside the mapping returns; one that leaves it is undefined
\* behaviour, which either returns (having touched memory that is not the
\* mapping's) or ends the process with a fault.
RawCopy(len, offset, count) ==
    LET outside == count > 0 /\ offset + count > len
    IN  [outside |-> outside,
         outcomes |-> IF outside THEN {"Ok", "Segfault"} ELSE {"Ok"}]

\* GpuObject::read(offset, size) and GpuObject::write(offset, data)
GpuObject_access(obj, offset, count) == RawCopy(ToNat(obj.bar0.size), offset, count)

Access(op, count) ==
    /\ \E o \in DOMAIN objects, offset \in 0..MaxOffset :
          LET r == GpuObject_access(objects[o], offset, count)
          IN  \E res \in r.outcomes :
                 last_access' = [called |-> TRUE, op |-> op, obj |-> o,
                                 offset |-> offset, width |-> count,
                                 result |-> res, outside |-> r.outside]
    /\ UNCHANGED <<phys_boot, iomem, objects, mappings, n_new, n_obj, last_new,
                   cc_reg, last_query>>
    /\ UNCHANGED pciVars

Read == \E size \in 0..MaxCopyLen : Access("read", size)
Write == \E len \in 0..MaxCopyLen : Access("write", len)
Read8 == Access("read8", 1)
Read16 == Access("read16", 2)
Read32 == Access("read32", 4)
Write8 == Access("write8", 1)
Write16 == Access("write16", 2)
Write32 == Access("write32", 4)

-----------------------------------------------------------------------------
(* CcMode and GpuObject::query_cc_mode *)

Bytes == 0..255

RECURSIVE BitAnd(_, _, _)
\* a & b on n bits
BitAnd(a, b, n) ==
    IF n = 0 THEN 0
    ELSE (a % 2) * (b % 2) + 2 * BitAnd(a \div 2, b \div 2, n - 1)

RECURSIVE BitOr(_, _, _)
\* a | b on n bits
BitOr(a, b, n) ==
    IF n = 0 THEN 0
    ELSE (IF a % 2 = 1 \/ b % 2 = 1 THEN 1 ELSE 0)
            + 2 * BitOr(a \div 2, b \div 2, n - 1)

\* CcMode::all(): the union of the declared flags
CcMode_all ==
    BitOr(BitOr(CC_MODE_OFF, CC_MODE_ON, U8Bits), CC_MODE_DEV_TOOLS, U8Bits)

\* CcMode::from_bits_truncate(bits): the bits no declared flag has are unset
from_bits_truncate(bits) == BitAnd(bits, CcMode_all, U8Bits)

\* GpuObject::read8(offset) where the device holds byte reg at that offset:
\* the copy of one byte is unchecked, so past the mapping it yields whatever
\* byte lies there, or a fault.
GpuObject_read8(obj, offset, reg) ==
    LET r == GpuObject_access(obj, offset, 1)
    IN  [outside |-> r.outside,
         outcomes |-> r.outcomes,
         values |-> IF r.outside THEN Bytes ELSE {reg}]

\* GpuObject::query_cc_mode: read8(NV_CC_MODE), then from_bits_truncate.
QueryCcMode ==
    /\ \E o \in DOMAIN objects :
          LET r == GpuObject_read8(objects[o], NV_CC_MODE, cc_reg)
          IN  \E res \in r.outcomes, b \in r.values :
                 last_query' =
                    [called |-> TRUE, obj |-> o, offset |-> NV_CC_MODE,
                     width |-> 1, result |-> res, outside |-> r.outside,
                     byte |-> IF res = "Ok" THEN b ELSE -1,
                     mode |-> IF res = "Ok" THEN from_bits_truncate(b) ELSE -1]
    /\ UNCHANGED <<phys_boot, iomem, objects, mappings, n_new, n_obj, last_new,
                   last_access, cc_reg>>
    /\ UNCHANGED pciVars

-----------------------------------------------------------------------------
(* Inputs *)

MaxConfigLen == 66   \* config files of 0..MaxConfigLen bytes are opened
NumNodes == 3        \* capability nodes a configuration space holds
MaxLines == 7        \* lines of a well-formed resource table
MaxRawLines == 2     \* lines of a resource table of arbitrary lines

PCI_CFG_SPACE_SIZE == 256

\* Capability nodes lie at 0x40, 0x50, ...
NodeOffsets == {64 + 16 * (n - 1) : n \in 1..NumNodes}
CapIds == {PCI_CAP_ID_PM, PCI_CAP_ID_EXP}
NodeSets == [NodeOffsets -> [id : CapIds, next : NodeOffsets \cup {0}]]
NoNodes == [a \in {} |-> 0]

\* A configuration space of len bytes: the identity, the capabilities
\* pointer and the capability nodes at their offsets, zero elsewhere.
ConfigImage(len, id_ok, capptr, nodes) ==
    [i \in 1..len |->
        LET off == i - 1
        IN  CASE off = 0 -> NVIDIA_VENDOR_ID % 256
              [] off = 1 -> NVIDIA_VENDOR_ID \div 256
              [] off = 2 -> IF id_ok THEN NVIDIA_HOPPER_H100 % 256 ELSE 0
              [] off = 3 -> IF id_ok THEN NVIDIA_HOPPER_H100 \div 256 ELSE 0
              [] off = CapPtrOffset -> capptr
              [] off \in DOMAIN nodes -> nodes[off].id
              [] off - 1 \in DOMAIN nodes -> nodes[off - 1].next
              [] OTHER -> 0]

GoodConfig == ConfigImage(PCI_CFG_SPACE_SIZE, TRUE, 0, NoNodes)

OpenedDevice(file) == PciDevice_new(file).dev

\* Resource-table lines.
ExampleLine == "00000000bb000000 00000000bb0fffff 0000000000040000"
MmioLine == "0x1000 0x1007 0x4"
Mmio32Line == "2000 2003 200"
IoLine == "e000 e07f 101"
EmptySlotLine == "0 0 0"
TwoFieldLine == "1000 1fff"
OneFieldLine == "1000"
NonHexLine == "1000 zz 0"
InvertedLine == "1000 fff 0"
TopLine == "1 ffffffffffffffff 0"

\* Well-formed lines: a memory BAR whose addresses name the line it is on,
\* an I/O BAR, an empty slot.
LineKinds == {"mmio", "io", "empty"}
Digit(k) == SubSeq("0123456789abcdef", k + 1, k + 1)
GoodLine(kind, k) ==
    CASE kind = "mmio" ->
            "0x" \o Digit(k) \o "000 0x" \o Digit(k) \o "007 "
                 \o (IF k % 2 = 1 THEN "0x4" ELSE "200")
      [] kind = "io" -> IoLine
      [] kind = "empty" -> EmptySlotLine
GoodTables ==
    UNION {{[k \in 1..m |-> GoodLine(kind[k], k)] : kind \in [1..m -> LineKinds]} :
              m \in 1..MaxLines}

RawLines == {MmioLine, Mmio32Line, IoLine, EmptySlotLine, ExampleLine,
             TwoFieldLine, OneFieldLine, NonHexLine, InvertedLine, TopLine, ""}

\* str::split yields at least one line, the empty one for an empty file.
SeqsUpTo(S, n) == UNION {[1..m -> S] : m \in 1..n}

\* /proc/iomem listings.
Listings == {
    <<"">>,
    <<"00001000-0009ffff : System RAM", "">>,
    <<"  00001000-00001007 : nvidia", "">>,
    <<"00000000-00000fff : Reserved", "  00002000-00002007 : nvidia",
      "  00001000-00001007 : nvidia">>,
    <<"  00001000-00001007 : nvidia", "  00002000-00002007 : nvidia">>,
    <<"nvidia">>,
    <<"00001000 : nvidia">>,
    <<"00001008-00001007 : nvidia">> }

PhysRegions == {Hex("1000"), Hex("2000")}
BootValues == {AllOnes(U32Digits), Zero(U32Digits), <<1, 8, 0, 0, 0, 0, 10, 1>>}

\* The register of region 0x1000 answers or is dead; that of 0x2000 agrees
\* with it or differs.
BootMaps == {f \in [PhysRegions -> BootValues] :
                /\ f[Hex("1000")] # Zero(U32Digits)
                /\ f[Hex("2000")] # AllOnes(U32Digits)}

NoCall == [called |-> FALSE]

PciIdle ==
    /\ caps_pc = "idle"
    /\ ptr = 0
    /\ caps_result = "none"
    /\ bars_result = "none"

GpuIdle ==
    /\ objects = [o \in {} |-> NoObject]
    /\ mappings = {}
    /\ n_new = 0
    /\ n_obj = 0
    /\ last_new = NoCall
    /\ last_access = NoCall
    /\ last_query = NoCall

NoGpuInputs ==
    /\ phys_boot = [pa \in PhysRegions |-> Zero(U32Digits)]
    /\ iomem = <<"">>
    /\ cc_reg = 0

-----------------------------------------------------------------------------
(* Specifications *)

\* PciDevice::new on config files of every length.
InitOpen ==
    /\ config_file \in {ConfigImage(len, id_ok, capptr, NoNodes) :
                          len \in 0..MaxConfigLen, id_ok \in BOOLEAN,
                          capptr \in {0, 64, NoCapsPtr}}
    /\ dev = NoDevice
    /\ new_result = "none"
    /\ resource = <<"">>
    /\ overflow_checks = TRUE
    /\ PciIdle /\ GpuIdle /\ NoGpuInputs

NextOpen == PciDeviceNew

SpecOpen == InitOpen /\ [][NextOpen]_vars

\* init_caps on an opened handle, over every capability layout.
InitCaps ==
    /\ config_file \in {ConfigImage(PCI_CFG_SPACE_SIZE, TRUE, capptr, nodes) :
                          capptr \in NodeOffsets \cup {0, NoCapsPtr},
                          nodes \in NodeSets}
    /\ dev = OpenedDevice(config_file)
    /\ new_result = "Ok"
    /\ resource = <<"">>
    /\ overflow_checks = TRUE
    /\ PciIdle /\ GpuIdle /\ NoGpuInputs

NextCaps == InitCapsBegin \/ InitCapsStep \/ InitCapsIoError \/ InitCapsReturn

SpecCaps == InitCaps /\ [][NextCaps]_vars

\* Capability nodes whose next_offset is a node, 0 or 0xff.
WalkNodeSets ==
    [NodeOffsets -> [id : {PCI_CAP_ID_PM},
                     next : NodeOffsets \cup {0, NoCapsPtr}]]

\* init_caps run to its end on an opened handle whose seeks and reads
\* succeed, over every layout of the next_offset links.
InitCapsWalk ==
    /\ config_file \in {ConfigImage(PCI_CFG_SPACE_SIZE, TRUE, capptr, nodes) :
                          capptr \in NodeOffsets \cup {0, NoCapsPtr},
                          nodes \in WalkNodeSets}
    /\ dev = OpenedDevice(config_file)
    /\ new_result = "Ok"
    /\ resource = <<"">>
    /\ overflow_checks = TRUE
    /\ PciIdle /\ GpuIdle /\ NoGpuInputs

NextCapsWalk == InitCapsBegin \/ InitCapsStep \/ InitCapsReturn

\* The thread that calls init_caps keeps running: a step that can be taken
\* is taken.
SpecCapsWalk == InitCapsWalk /\ [][NextCapsWalk]_vars /\ WF_vars(NextCapsWalk)

\* init_bars on an opened handle, over well-formed resource tables.
InitBarsGood ==
    /\ config_file = GoodConfig
    /\ dev = OpenedDevice(config_file)
    /\ new_result = "Ok"
    /\ resource \in GoodTables
    /\ overflow_checks \in BOOLEAN
    /\ PciIdle /\ GpuIdle /\ NoGpuInputs

NextBars == InitBars

SpecBars == InitBarsGood /\ [][NextBars]_vars

\* init_bars on an opened handle, over short tables of arbitrary lines.
InitBarsRaw ==
    /\ config_file = GoodConfig
    /\ dev = OpenedDevice(config_file)
    /\ new_result = "Ok"
    /\ resource \in SeqsUpTo(RawLines, MaxRawLines)
    /\ overflow_checks \in BOOLEAN
    /\ PciIdle /\ GpuIdle /\ NoGpuInputs

SpecBarLines == InitBarsRaw /\ [][NextBars]_vars

\* The handle after open and init_bars on a table.
DeviceWithBars(table) ==
    [OpenedDevice(GoodConfig) EXCEPT
        !.bars = init_bars(table, OpenedDevice(GoodConfig).bars, FALSE).bars]

GpuTables == {<<MmioLine>>, <<IoLine, Mmio32Line>>, <<EmptySlotLine>>}

InitGpuInputs ==
    /\ config_file = GoodConfig
    /\ resource \in GpuTables
    /\ dev = DeviceWithBars(resource)
    /\ new_result = "Ok"
    /\ caps_pc = "idle"
    /\ ptr = 0
    /\ caps_result = "none"
    /\ bars_result = "Ok"

\* GpuObject::new, clone and drop on an initialised handle.
InitGpu ==
    /\ InitGpuInputs
    /\ overflow_checks \in BOOLEAN
    /\ phys_boot \in BootMaps
    /\ iomem \in Listings
    /\ cc_reg = 0
    /\ GpuIdle

NextGpu == GpuObjectNew \/ GpuObjectClone \/ GpuObjectDrop

SpecGpu == InitGpu /\ [][NextGpu]_vars

\* The accessors on a constructed object.
InitAccess ==
    /\ InitGpuInputs
    /\ overflow_checks = TRUE
    /\ NoGpuInputs
    /\ LET r == GpuObject_new(dev, iomem, {}, overflow_checks, "none")
       IN  /\ r.result = "Ok"
           /\ objects = [o \in {1} |-> r.obj]
           /\ mappings = r.maps
           /\ last_new = [called |-> TRUE, fail |-> "none", result |-> r.result,
                          before |-> {}, obj |-> r.obj]
    /\ n_new = 1
    /\ n_obj = 1
    /\ last_access = NoCall
    /\ last_query = NoCall

NextAccess ==
    \/ Read \/ Write
    \/ Read8 \/ Read16 \/ Read32
    \/ Write8 \/ Write16 \/ Write32

SpecAccess == InitAccess /\ [][NextAccess]_vars

\* A resource table whose BAR0 spans 16 MiB, and the one of the 1 MiB
\* example line, which ends below NV_CC_MODE.
WideBarLine == "bb000000 bbffffff 140204"
CcTables == {<<WideBarLine>>, <<ExampleLine>>}

\* query_cc_mode on a constructed object, over every register byte; a BAR0
\* that ends below NV_CC_MODE holds no such register.
InitCcMode ==
    /\ config_file = GoodConfig
    /\ resource \in CcTables
    /\ dev = DeviceWithBars(resource)
    /\ new_result = "Ok"
    /\ caps_pc = "idle"
    /\ ptr = 0
    /\ caps_result = "none"
    /\ bars_result = "Ok"
    /\ overflow_checks = TRUE
    /\ phys_boot = [pa \in {dev.bars[1].addr} |-> Zero(U32Digits)]
    /\ iomem = <<"">>
    /\ cc_reg \in IF ToNat(dev.bars[1].size) > NV_CC_MODE THEN Bytes ELSE {0}
    /\ LET r == GpuObject_new(dev, iomem, {}, overflow_checks, "none")
       IN  /\ r.result = "Ok"
           /\ objects = [o \in {1} |-> r.obj]
           /\ mappings = r.maps
           /\ last_new = [called |-> TRUE, fail |-> "none", result |-> r.result,
                          before |-> {}, obj |-> r.obj]
    /\ n_new = 1
    /\ n_obj = 1
    /\ last_access = NoCall
    /\ last_query = NoCall

NextCcMode == QueryCcMode

SpecCcMode == InitCcMode /\ [][NextCcMode]_vars

\* The whole program.
Init == InitGpu
Next == NextGpu
Spec == SpecGpu

-----------------------------------------------------------------------------
(* Properties *)

Min(a, b) == IF a < b THEN a ELSE b

\* C1: an access with offset + width <= bar0.size succeeds, and one with
\* offset + width > bar0.size returns an OutOfRange error and touches no
\* memory outside the mapped window.
C1_AccessBoundsChecked ==
    last_access.called =>
        LET size == ToNat(objects[last_access.obj].bar0.size)
        IN  IF last_access.offset + last_access.width <= size
            THEN last_access.result = "Ok" /\ ~last_access.outside
            ELSE last_access.result = "OutOfRange" /\ ~last_access.outside

\* The lines of the listing that carry the vendor marker.
MarkerLines == {k \in 1..Len(iomem) : Contains(iomem[k], VendorMarker)}
FirstMarkerLine == CHOOSE k \in MarkerLines : \A j \in MarkerLines : k <= j

\* The line starts with a range start-end of hexadecimal bounds that spans
\* at least one byte.
WellFormedRange(line) ==
    LET f == Split(Split(Trim(line), " ")[1], "-")
    IN  /\ Len(f) = 2
        /\ from_str_radix(f[1]).ok /\ from_str_radix(f[2]).ok
        /\ ~SubOverflows(Hex(f[2]), Hex(f[1]))
        /\ ~IncOverflows(WrappingSub(Hex(f[2]), Hex(f[1])))

RangeStart(line) == Hex(Split(Split(Trim(line), " ")[1], "-")[1])

Bar0Boot == phys_boot[dev.bars[1].addr]

\* GpuObject::new ran, its opens, reads and mappings succeeded, and every
\* marker line carries a range that can be mapped.
MappingsSucceed ==
    /\ last_new.called
    /\ last_new.fail = "none"
    /\ ~IsZero(dev.bars[1].size)
    /\ \A k \in MarkerLines : WellFormedRange(iomem[k])

\* C2, as claimed: given that opening and mapping succeed, GpuObject::new
\* fails its sanity check exactly when the BAR0 boot value is 0xffffffff or
\* some line with the vendor marker names a range whose boot value differs
\* from BAR0's; otherwise it succeeds.
C2_FailsIffAnyMarkerLineDiffers ==
    MappingsSucceed =>
        /\ last_new.result \in {"Ok", "SanityCheckFailed"}
        /\ last_new.result = "SanityCheckFailed" <=>
              \/ Bar0Boot = AllOnes(U32Digits)
              \/ \E k \in MarkerLines :
                    phys_boot[RangeStart(iomem[k])] # Bar0Boot

\* C2, amended: ... or the first line with the vendor marker names a range
\* whose boot value differs from BAR0's; otherwise, and whenever no line
\* carries the marker, it succeeds.
C2_FailsIffFirstMarkerLineDiffers ==
    MappingsSucceed =>
        /\ last_new.result \in {"Ok", "SanityCheckFailed"}
        /\ last_new.result = "SanityCheckFailed" <=>
              \/ Bar0Boot = AllOnes(U32Digits)
              \/ /\ MarkerLines # {}
                 /\ phys_boot[RangeStart(iomem[FirstMarkerLine])] # Bar0Boot
        /\ (MarkerLines = {} /\ Bar0Boot # AllOnes(U32Digits))
              => last_new.result = "Ok"

\* GpuObject::new failed its cross-mapping check on a live BAR0 mapping.
C2_Witness ==
    /\ MappingsSucceed
    /\ Bar0Boot # AllOnes(U32Digits)
    /\ MarkerLines # {}
    /\ last_new.result = "SanityCheckFailed"

\* C3: every mapping a construction made is released unless a live object
\* owns it: a failed construction leaves none, a successful one only its
\* BAR0 mapping, and dropping the object releases that.
C3_NoMappingOutlivesItsObject ==
    \A m \in mappings : \E o \in DOMAIN objects : objects[o].bar0_mapped = m.base

\* C4: PciDevice::new on a config file of fewer than size_of::<RawConfig>()
\* bytes fails and returns no handle (the kind of the error is left open).
C4_ShortConfigRejected ==
    (new_result # "none" /\ Len(config_file) < RawConfigSize) =>
        (new_result # "Ok" /\ dev = NoDevice)

\* The first six lines of the resource table that are memory BARs with a
\* non-zero start.
Qualifying ==
    {k \in 1..Min(Len(resource), NumBars) :
        LET f == BarFields(resource[k])
        IN  Bit0(Hex(f[3])) = 0 /\ ~IsZero(Hex(f[1]))}

\* C5: after init_bars, the j-th qualifying line is stored at slot j - 1,
\* other lines consume no slot, and the slots past the qualifying lines
\* are unpopulated.
C5_SlotsCompacted ==
    bars_result = "Ok" =>
        /\ \A k \in Qualifying :
              LET slot == Cardinality({j \in Qualifying : j <= k})
              IN  dev.bars[slot].addr = Hex(BarFields(resource[k])[1])
        /\ \A s \in 1..NumBars :
              s > Cardinality(Qualifying) => dev.bars[s] = DefaultBar

\* init_bars returned on a table of seven lines whose first is skipped and
\* whose second and seventh are memory BARs.
C5_Witness ==
    /\ bars_result = "Ok"
    /\ Len(resource) = NumBars + 1
    /\ 1 \notin Qualifying
    /\ 2 \in Qualifying
    /\ ~IsZero(Hex(BarFields(resource[NumBars + 1])[1]))

ExampleAddr == <<0, 0, 0, 0, 0, 0, 0, 0, 11, 11, 0, 0, 0, 0, 0, 0>>
ExampleSize == <<0, 0, 0, 0, 0, 0, 0, 0, 0, 0, 1, 0, 0, 0, 0, 0>>

ExampleRead ==
    /\ bars_result = "Ok"
    /\ Len(resource) >= 1
    /\ resource[1] = ExampleLine

\* C6, as claimed: the line 00000000bb000000 00000000bb0fffff
\* 0000000000040000 is stored with address 0xbb000000, size 0x100000 and
\* is_64bit = true.
C6_ExampleIs64 ==
    ExampleRead =>
        dev.bars[1] = [addr |-> ExampleAddr, size |-> ExampleSize, is_64 |-> TRUE]

\* C6, amended: that line is stored with address 0xbb000000, size 0x100000
\* and is_64bit = false, bits 2:1 of flags 0x40000 being 0b00.
C6_ExampleIs32 ==
    ExampleRead =>
        dev.bars[1] = [addr |-> ExampleAddr, size |-> ExampleSize, is_64 |-> FALSE]

\* init_bars returned on a table whose first line is the example's.
C6_Witness == ExampleRead /\ ~IsZero(dev.bars[1].addr)

RECURSIVE ChainFrom(_, _)
\* The offsets of the nodes the next_offset links lead through from a, at
\* most fuel of them.
ChainFrom(a, fuel) ==
    IF a = 0 \/ fuel = 0 THEN <<>>
    ELSE <<a>> \o ChainFrom(config_file[a + 2], fuel - 1)

Chain == ChainFrom(config_file[CapPtrOffset + 1], PCI_CFG_SPACE_SIZE)
NodeId(a) == config_file[a + 1]

\* C7, as claimed: after init_caps on a chain of k nodes ended by
\* next_offset == 0, the capability table has exactly k entries.
C7_OneEntryPerNode ==
    caps_result = "Ok" => Cardinality(DOMAIN dev.caps) = Len(Chain)

\* C7, amended: the table has one entry per capability id of the chain
\* (k entries when the k ids differ), each id mapped to the offset of the
\* last node of the chain that carries it.
C7_OneEntryPerId ==
    caps_result = "Ok" =>
        /\ DOMAIN dev.caps = {NodeId(Chain[i]) : i \in 1..Len(Chain)}
        /\ \A i \in 1..Len(Chain) :
              (\A j \in (i + 1)..Len(Chain) : NodeId(Chain[j]) # NodeId(Chain[i]))
                 => dev.caps[NodeId(Chain[i])] = Chain[i]
        /\ (\A i, j \in 1..Len(Chain) : i # j => NodeId(Chain[i]) # NodeId(Chain[j]))
              => Cardinality(DOMAIN dev.caps) = Len(Chain)

\* init_caps returned on a chain of three nodes, two of one id.
C7_Witness ==
    /\ caps_result = "Ok"
    /\ Len(Chain) = 3
    /\ Cardinality(DOMAIN dev.caps) = 2

\* A line of fewer than three space-separated fields, or with a field that
\* is no hexadecimal number.
Malformed(line) ==
    LET f == BarFields(line)
    IN  \/ Len(f) < 3
        \/ \E j \in 1..3 : ~from_str_radix(f[j]).ok

\* A well-formed line whose end lies below its start.
Inverted(line) ==
    /\ ~Malformed(line)
    /\ SubOverflows(Hex(BarFields(line)[2]), Hex(BarFields(line)[1]))

\* C8: init_bars returns an error, and does not panic, when one of the
\* first six lines is malformed (the lines before it being in order).
C8_MalformedLineIsAnError ==
    (/\ bars_result # "none"
     /\ \E k \in 1..Min(Len(resource), NumBars) :
           /\ Malformed(resource[k])
           /\ \A j \in 1..(k - 1) : ~Malformed(resource[j]) /\ ~Inverted(resource[j]))
        => bars_result \in {"ParseError", "IoError"}

\* C9: after init_bars on a parseable table, every slot is unpopulated
\* (address 0 and size 0) or populated with a non-zero address and a size
\* of at least 1.
C9_SlotsEmptyOrSized ==
    (/\ bars_result \in {"Ok", "Panic"}
     /\ \A k \in 1..Len(resource) : ~Malformed(resource[k]))
        => \A s \in 1..NumBars :
              \/ IsZero(dev.bars[s].addr) /\ IsZero(dev.bars[s].size)
              \/ ~IsZero(dev.bars[s].addr) /\ ~IsZero(dev.bars[s].size)

\* C10: no two live GpuObject values hold the same bar0_mapped.
C10_MappingsExclusive ==
    \A o1, o2 \in DOMAIN objects :
        o1 # o2 => objects[o1].bar0_mapped # objects[o2].bar0_mapped

\* The mode a byte of the register stands for, and the one a returned CcMode
\* value compares equal to.
ModeOf(bits) ==
    CASE bits = CC_MODE_OFF -> "Off"
      [] bits = CC_MODE_ON -> "On"
      [] bits = CC_MODE_DEV_TOOLS -> "DevToolsOn"
      [] OTHER -> "Unknown"

\* C11: query_cc_mode reads exactly one byte at offset 0x1182cc and returns
\* Off for 0x0, On for 0x1, DevToolsOn for 0x3 and an unknown/reserved result
\* for every other byte value: no other byte is reported as a known mode.
C11_UnknownBytesReportedUnknown ==
    (last_query.called /\ last_query.result = "Ok" /\ ~last_query.outside) =>
        /\ last_query.offset = NV_CC_MODE
        /\ last_query.width = 1
        /\ last_query.byte = cc_reg
        /\ ModeOf(last_query.mode) = ModeOf(cc_reg)

\* The next_offset byte of the node at offset a, as a 4-byte read at a
\* yields it: 0 past the end of the file.
NextOffset(a) == IF a + 1 < Len(config_file) THEN config_file[a + 2] ELSE 0

\* One link from each offset, 0 being the end.
Link == [a \in Bytes |-> IF a = 0 THEN 0 ELSE NextOffset(a)]

RECURSIVE Links(_)
\* 2^k links from each offset.
Links(k) ==
    IF k = 0 THEN Link
    ELSE LET g == Links(k - 1) IN [a \in Bytes |-> g[g[a]]]

Follow(a, k) == Links(k)[a]

\* Offsets are one byte: links that reach 0 do so within 255 nodes.
EndsFrom(a) == Follow(a, U8Bits) = 0

RECURSIVE NodesFrom(_)
NodesFrom(a) == IF a = 0 THEN 0 ELSE 1 + NodesFrom(NextOffset(a))

\* The number of nodes the next_offset links lead through from offset a
\* before they reach 0; -1 when they never do.
NodesLeft(a) == IF EndsFrom(a) THEN NodesFrom(a) ELSE -1

CapPtr == config_file[CapPtrOffset + 1]
ChainEnds == NodesLeft(CapPtr) >= 0

\* C12: with seeks and reads that succeed, init_caps returns if and only if
\* the next_offset links followed from the capabilities pointer reach 0. On
\* such a chain every iteration visits the next node of the chain, once (at
\* most 255 in all), and the walk returns only at next_offset 0; on links
\* that form a cycle it never returns. Only the initial pointer is tested
\* against 0xff: a 0xff met later is walked as a node.
C12_WalkReturnsIffChainEnds ==
    /\ ChainEnds => <>(caps_pc = "done")
    /\ ~ChainEnds => [](caps_pc # "done")
    /\ [][(caps_pc = "loop" /\ ChainEnds /\ ptr' # ptr)
              => NodesLeft(ptr') = NodesLeft(ptr) - 1]_vars
    /\ [](ChainEnds => NodesLeft(CapPtr) < PCI_CFG_SPACE_SIZE)
    /\ [](caps_result = "Ok" => ptr = 0)
    /\ [](caps_result = "NoCapabilities" <=>
            (caps_pc = "done" /\ CapPtr = NoCapsPtr))

\* The walk is back at the node it began with, on links that form a cycle.
C12_Witness ==
    /\ ~ChainEnds
    /\ caps_pc = "loop"
    /\ ptr = CapPtr
    /\ DOMAIN dev.caps # {}

====
